---- MODULE Spec2Model ----
(***************************************************************************)
(* A model of the ACP session engine of SouthBridge-ACP-Client:            *)
(* CodingAgentClient (src/src/client.ts), the SSE transport and the        *)
(* session store (src/src/transport.ts).                                   *)
(*                                                                         *)
(* JavaScript runs one task at a time and switches tasks only at an await. *)
(* Every action below is one run-to-completion stretch of code between two *)
(* awaits.  The logical tasks are "main" (the application calling          *)
(* startSession and sendPrompt), "reader" (the readMessages loop) and      *)
(* "other" (a second caller of sendPrompt, idle unless a run says so).     *)
(* Timestamps of history entries and console output are left out.          *)
(***************************************************************************)
EXTENDS Integers, Sequences, FiniteSets, TLC

\* ------------------------------------------------------------- bounds
MaxPrompts == 1
MaxInbound == 1
MaxHistory == 2

\* ---------------------------------------------------- program constants
UserRejectedCode == -32000
InternalErrorCode == -32603

UserRejectedMessage == "User rejected tool call"

\* TOOL_METHODS: the accepted spellings of each tool method.
TOOL_METHODS ==
  [WRITE_FILE |-> {"writeTextFile", "fs/writeTextFile", "fs.writeTextFile"},
   READ_FILE |-> {"readTextFile", "fs/readTextFile", "fs.readTextFile"},
   LIST_DIRECTORY |-> {"listDirectory", "fs/listDirectory", "fs.listDirectory"},
   CREATE_TERMINAL |-> {"createTerminal", "terminal/create", "terminal.create"}]

matchesTool(method, toolMethods) == method \in toolMethods

\* A handleMessage that knows the bare method names only.
ToolNameOfBare(method) ==
  IF method \in {"writeTextFile", "readTextFile", "listDirectory",
                 "createTerminal"}
  THEN method ELSE ""

\* The if/else-if chain of handleMessage: the tool name handed to
\* handleToolCall, or "" when no branch matches.
ToolNameOf(method) ==
  IF matchesTool(method, TOOL_METHODS.WRITE_FILE) THEN "writeTextFile"
  ELSE IF matchesTool(method, TOOL_METHODS.READ_FILE) THEN "readTextFile"
  ELSE IF matchesTool(method, TOOL_METHODS.LIST_DIRECTORY) THEN "listDirectory"
  ELSE IF matchesTool(method, TOOL_METHODS.CREATE_TERMINAL) THEN "createTerminal"
  ELSE ""

\* ------------------------------------------------------------ messages
\* JSONRPCMessage.  rid is a numeric id allocated by this client, pid an id
\* chosen by the peer (a string, echoed back unmodified); method = "" is
\* an absent method.  text is the payload: a tag of the result, the error
\* message, or the sessionId of a session/new result.
Request(n, method) ==
  [kind |-> "request", rid |-> n, pid |-> "", method |-> method,
   code |-> 0, text |-> ""]

ResultResponse(id, payload) ==
  [kind |-> "result", rid |-> -1, pid |-> id, method |-> "",
   code |-> 0, text |-> payload]

ErrorResponse(id, code, message) ==
  [kind |-> "error", rid |-> -1, pid |-> id, method |-> "",
   code |-> code, text |-> message]

\* What the peer sends: a request for a tool (or another method), and the
\* result of request n of this client.
PeerRequest(id, method) ==
  [kind |-> "request", rid |-> -1, pid |-> id, method |-> method,
   code |-> 0, text |-> ""]

PeerResult(n, payload) ==
  [kind |-> "result", rid |-> n, pid |-> "", method |-> "",
   code |-> 0, text |-> payload]

NoMsg == [kind |-> "none", rid |-> -1, pid |-> "", method |-> "",
          code |-> 0, text |-> ""]

\* ------------------------------------------------- the environment's inputs
PeerIds == <<"req_a", "req_b", "req_c", "req_d">>
PeerMethods == UNION {TOOL_METHODS[k] : k \in DOMAIN TOOL_METHODS}
                 \cup {"session/update"}
ServerSessionIds == {"mock-session-1"}
PromptTexts == {"hello"}
ErrorTexts == {"ENOENT", "EACCES"}

\* ------------------------------------------------------------- state
Procs == {"main", "reader", "other"}
NoSession == ""
NoCall == ""

VARIABLES
  pc,            \* where each task is suspended
  sessionId,     \* CodingAgentClient.sessionId (NoSession: undefined)
  requestId,     \* CodingAgentClient.requestId
  writeQueue,    \* CodingAgentClient.writeQueue
  isWriting,     \* CodingAgentClient.isWriting
  history,       \* CodingAgentClient.history
  autoSave,      \* CodingAgentClient.autoSave
  model,         \* CodingAgentClient.model
  workspaceDir,  \* CodingAgentClient.workspaceDir
  drainers,      \* the tasks inside the while loop of processWriteQueue
  writerLocked,  \* transport.writable is locked to a writer
  inflight,      \* the message whose writer.write is awaited (or NoMsg)
  wire,          \* the messages handed to the transport's sink, in order
  dropped,       \* the messages shifted off the queue and never written
  lost,          \* the messages whose POST failed
  enqueued,      \* every message pushed on writeQueue, in order
  answered,      \* the ids of this client's requests the peer has answered
  inbound,       \* the chunks in the readable stream, not yet read
  streamClosed,  \* controller.close() was called (es.onerror)
  peerSent,      \* how many chunks the peer has sent
  received,      \* the responses readMessages has read
  spelling,      \* the method spelling of each request read (where noted)
  cur,           \* handleToolCall's requestId (NoCall outside a call)
  calls,         \* per invocation: tool, decision, ran, fate, error, after
  saving,        \* per task: the snapshot its saveSession is writing
  store,         \* the files of the sessions directory: path -> content
  load,          \* resumeSession: the id asked for and what came of it
  api,           \* the last call of the session store made by the application
  message,       \* sendPrompt's parameter while a call is running
  prompts        \* how many times sendPrompt was called

engineVars == <<sessionId, requestId, history, autoSave, model, workspaceDir>>
queueVars == <<writeQueue, isWriting, drainers, writerLocked, inflight, wire,
               dropped, lost, enqueued>>
peerVars == <<answered, inbound, streamClosed, peerSent>>
toolVars == <<received, spelling, cur, calls>>
storeVars == <<saving, store, load, api>>
vars == <<pc, engineVars, queueVars, peerVars, toolVars, storeVars, message,
          prompts>>

NoSnapshot == [sessionId |-> NoSession, model |-> "", workspaceDir |-> "",
               history |-> <<>>]

HistoryEntry(type, data) == [type |-> type, data |-> data]

\* ------------------------------------------------------ the session files
\* SESSIONS_DIR and the path join(SESSIONS_DIR, `${sessionId}.json`): the
\* directory, the base name and the extension.
SESSIONS_DIR == ".acp-sessions"
FilePath(id) == <<SESSIONS_DIR, id, ".json">>

\* JSON.stringify(data, null, 2): the text of a SessionData, its fields in
\* the order of the object, the history as an array in its order.
Stringify(data) ==
  <<data.sessionId, data.model, data.workspaceDir,
    [i \in 1..Len(data.history) |->
       <<data.history[i].type, data.history[i].data>>]>>

\* JSON.parse(content): the object the text denotes.
Parse(content) ==
  [sessionId |-> content[1], model |-> content[2], workspaceDir |-> content[3],
   history |-> [i \in 1..Len(content[4]) |->
                  HistoryEntry(content[4][i][1], content[4][i][2])]]

\* A saveSession that leaves an existing file as it is.
saveSessionKeepFirst(dir, id, data) ==
  IF FilePath(id) \in DOMAIN dir THEN dir
  ELSE [f \in DOMAIN dir \cup {FilePath(id)} |->
          IF f = FilePath(id) THEN Stringify(data) ELSE dir[f]]

\* saveSession on directory dir: writeFile replaces the whole file of the
\* id, or creates it.
saveSession(dir, id, data) ==
  [f \in DOMAIN dir \cup {FilePath(id)} |->
     IF f = FilePath(id) THEN Stringify(data) ELSE dir[f]]

\* loadSession: null (NoSnapshot) when the file does not exist, else the
\* parsed content.
loadSession(dir, id) ==
  IF FilePath(id) \in DOMAIN dir THEN Parse(dir[FilePath(id)]) ELSE NoSnapshot

\* listSessions: the base names of the files ending in .json.
listSessions(dir) == {f[2] : f \in {g \in DOMAIN dir : g[3] = ".json"}}

\* deleteSession: unlink the file when it exists.
deleteSession(dir, id) ==
  [f \in DOMAIN dir \ {FilePath(id)} |-> dir[f]]

\* No call of the session store was made; saved: the data last given to
\* saveSession for each id and not deleted since.
NoApi == [op |-> "none", id |-> "", data |-> NoSnapshot, list |-> {},
          raised |-> FALSE, saved |-> <<>>]

\* resumeSession has not been called.
NoLoad == [id |-> "", result |-> "none"]

\* The engine after construction, in a working directory whose sessions
\* directory holds the files dir.
InitOn(dir) ==
  /\ pc = [p \in Procs |-> IF p = "main" THEN "boot" ELSE "off"]
  /\ sessionId = NoSession
  /\ requestId = 0
  /\ writeQueue = <<>>
  /\ isWriting = FALSE
  /\ history = <<>>
  /\ autoSave = TRUE
  /\ model = "claude-3-5-sonnet-20241022"
  /\ workspaceDir = "cwd"
  /\ drainers = {}
  /\ writerLocked = FALSE
  /\ inflight = NoMsg
  /\ wire = <<>>
  /\ dropped = <<>>
  /\ lost = {}
  /\ enqueued = <<>>
  /\ answered = {}
  /\ inbound = <<>>
  /\ streamClosed = FALSE
  /\ peerSent = 0
  /\ received = {}
  /\ spelling = <<>>
  /\ cur = NoCall
  /\ calls = <<>>
  /\ saving = [p \in Procs |-> NoSnapshot]
  /\ store = dir
  /\ load = NoLoad
  /\ api = NoApi
  /\ message = [p \in Procs |-> ""]
  /\ prompts = 0

\* A first run: no session was ever saved.
Init == InitOn(<<>>)

\* ------------------------------------------------- the outbound queue
\* A processWriteQueue without its `if (this.isWriting) return`.
StartsDrainAlways(writing) == TRUE

\* processWriteQueue, line 277: a call goes on to the loop only when no
\* drain is running.
StartsDrain(writing) == ~writing

\* A drain loop that takes the newest message (pop for shift).
DrainLoopLifo(p, q, locked, pending) ==
  IF q = <<>> \/ locked
  THEN /\ writeQueue' = <<>>
       /\ dropped' = dropped \o q
       /\ isWriting' = FALSE
       /\ drainers' = drainers \ {p}
       /\ writerLocked' = locked
       /\ inflight' = pending
       /\ wire' = wire
  ELSE /\ writeQueue' = SubSeq(q, 1, Len(q) - 1)
       /\ dropped' = dropped
       /\ isWriting' = TRUE
       /\ drainers' = drainers \cup {p}
       /\ writerLocked' = TRUE
       /\ inflight' = q[Len(q)]
       /\ wire' = Append(wire, q[Len(q)])

\* processWriteQueue from the head of its while loop, run by task p on
\* queue q with the writable stream locked or not, up to its next await
\* (pending: the write another task is awaiting, NoMsg when there is none).
\*  - queue empty: isWriting = false, the call returns;
\*  - getWriter() throws on a locked stream: the catch logs, the loop goes
\*    on, and so every queued message is shifted and dropped;
\*  - otherwise the head is shifted and writer.write(msg) awaited.
DrainLoop(p, q, locked, pending) ==
  IF q = <<>> \/ locked
  THEN /\ writeQueue' = <<>>
       /\ dropped' = dropped \o q
       /\ isWriting' = FALSE
       /\ drainers' = drainers \ {p}
       /\ writerLocked' = locked
       /\ inflight' = pending
       /\ wire' = wire
  ELSE /\ writeQueue' = Tail(q)
       /\ dropped' = dropped
       /\ isWriting' = TRUE
       /\ drainers' = drainers \cup {p}
       /\ writerLocked' = TRUE
       /\ inflight' = Head(q)
       /\ wire' = Append(wire, Head(q))

\* this.writeQueue.push(msg); await this.processWriteQueue(), up to the
\* await: the tail shared by sendRPC and sendRPCResponse.
Enqueue(p, msg) ==
  /\ enqueued' = Append(enqueued, msg)
  /\ lost' = lost
  /\ IF StartsDrain(isWriting)
     THEN DrainLoop(p, Append(writeQueue, msg), writerLocked, inflight)
     ELSE /\ writeQueue' = Append(writeQueue, msg)
          /\ UNCHANGED <<isWriting, drainers, writerLocked, inflight, wire,
                         dropped>>

\* sendRPC: allocate the id, build the request, enqueue.
sendRPC(p, method) ==
  /\ requestId' = requestId + 1
  /\ Enqueue(p, Request(requestId, method))

\* sendRPC's return value: always null (client.ts line 312).
NoResponse == [sessionId |-> NoSession]
sendRPCReturn == NoResponse

\* sendRPCResponse: a result when error is null, an error otherwise.
sendRPCResponse(p, msg) == Enqueue(p, msg)

\* A drain that puts a message whose write failed back in the queue.
AfterWriteRequeue(q, msg, failed) == IF failed THEN Append(q, msg) ELSE q

\* The queue the loop of processWriteQueue goes on with after the write of
\* msg: the message was shifted off before the write and nothing puts it
\* back, whether the write failed or not.
AfterWrite(q, msg, failed) == q

\* writer.write(msg) settles, the lock is released and the loop goes on.
\* The sink of createSSEStream POSTs the chunk and logs a failed fetch or a
\* non-ok status itself, so the write resolves whether or not the peer got
\* the message (failed: it did not).
WriteSettles(failed) ==
  /\ inflight # NoMsg
  /\ \E d \in drainers :
       DrainLoop(d, AfterWrite(writeQueue, inflight, failed), FALSE, NoMsg)
  /\ lost' = IF failed THEN lost \cup {inflight} ELSE lost
  /\ UNCHANGED <<pc, engineVars, enqueued, peerVars, toolVars, storeVars,
                 message, prompts>>

WriteDone == WriteSettles(FALSE)

\* The POST of the message in flight fails: no server, or a non-ok status.
WriteFails == WriteSettles(TRUE)

\* --------------------------------------------------------- the main task
\* A startSession that sends no initialize.
StartSessionNoHandshake ==
  /\ pc["main"] = "boot"
  /\ pc' = [pc EXCEPT !["main"] = "ready", !["reader"] = "read"]
  /\ UNCHANGED <<engineVars, queueVars, peerVars, toolVars, storeVars,
                 message, prompts>>

\* startSession: create the transport, start readMessages, send initialize.
startSession(wait) ==
  /\ sendRPC("main", "initialize")
  /\ pc' = [pc EXCEPT !["main"] = wait, !["reader"] = "read"]
  /\ UNCHANGED <<sessionId, history, autoSave, model, workspaceDir, peerVars,
                 toolVars, message, prompts>>

\* The application calls startSession first of all.
StartSession ==
  /\ pc["main"] = "boot"
  /\ startSession("init_wait")
  /\ UNCHANGED storeVars

\* The await of processWriteQueue in sendRPC or sendRPCResponse resolves for
\* task p: at once when another drain was running, else when p's own drain
\* has emptied the queue.
QueueAwaitOver(p) == p \notin drainers

\* startSession returns once its sendRPC has.
StartSessionReturn ==
  /\ pc["main"] = "init_wait"
  /\ QueueAwaitOver("main")
  /\ pc' = [pc EXCEPT !["main"] = "ready"]
  /\ UNCHANGED <<engineVars, queueVars, peerVars, toolVars, storeVars,
                 message, prompts>>

\* sendPrompt, lines 257-268, called by task p: push the prompt entry, send
\* session/prompt.
PushAndSendPrompt(p, text) ==
  /\ history' = Append(history, HistoryEntry("prompt", text))
  /\ sendRPC(p, "session/prompt")

\* sendPrompt called by task p, up to its first sendRPC: session/new when
\* there is no session.
sendPrompt(p) ==
  /\ \E text \in PromptTexts :
       /\ message' = [message EXCEPT ![p] = text]
       /\ IF sessionId = NoSession
          THEN /\ sendRPC(p, "session/new")
               /\ pc' = [pc EXCEPT ![p] = "new_wait"]
               /\ UNCHANGED history
          ELSE /\ PushAndSendPrompt(p, text)
               /\ pc' = [pc EXCEPT ![p] = "prompt_wait"]
  /\ prompts' = prompts + 1
  /\ UNCHANGED <<sessionId, autoSave, model, workspaceDir, peerVars, toolVars,
                 storeVars>>

\* The application calls sendPrompt and awaits it (index.ts 69, 91).
SendPrompt ==
  /\ pc["main"] = "ready"
  /\ prompts < MaxPrompts
  /\ sendPrompt("main")

\* `session-${Date.now()}`: an id made up locally from the clock.  The
\* first id made up in a run is called LocalSessionId; one made up when the
\* engine already holds sid is made in the same millisecond or later.
LocalSessionId == "session-now"
LaterSessionId == "session-later"
LocalSessionIds(sid) ==
  IF sid = NoSession THEN {LocalSessionId} ELSE {sid, LaterSessionId}

\* sessionResp?.sessionId || `session-${Date.now()}` (line 254).
AdoptSessionId(sessionResp, now) ==
  IF sessionResp.sessionId # NoSession THEN sessionResp.sessionId
  ELSE now

\* sendPrompt of task p after `await this.sendRPC("session/new", {})`.
SessionCreatedBy(p) ==
  /\ pc[p] = "new_wait"
  /\ QueueAwaitOver(p)
  /\ \E now \in LocalSessionIds(sessionId) :
       sessionId' = AdoptSessionId(sendRPCReturn, now)
  /\ PushAndSendPrompt(p, message[p])
  /\ pc' = [pc EXCEPT ![p] = "prompt_wait"]
  /\ UNCHANGED <<autoSave, model, workspaceDir, peerVars, toolVars, storeVars,
                 message, prompts>>

SessionCreated == SessionCreatedBy("main")

\* ------------------------------------------------------ the session store
SessionData ==
  [sessionId |-> sessionId, model |-> model, workspaceDir |-> workspaceDir,
   history |-> history]

\* persistSession's guard (line 384).
Persists == autoSave /\ sessionId # NoSession

\* persistSession run by task p, which goes on at label `after` when nothing
\* is saved: saveSession serializes the session as it is now and awaits the
\* file write (the sessions directory exists, the disk accepts the write).
persistSession(p, after) ==
  IF Persists
  THEN /\ saving' = [saving EXCEPT ![p] = SessionData]
       /\ pc' = [pc EXCEPT ![p] = "save_wait"]
  ELSE /\ saving' = saving
       /\ pc' = [pc EXCEPT ![p] = after]

\* Where task p goes on after its save: the application is ready for its
\* next call, the read loop reads on, a second caller is done.
AfterSave(p) ==
  IF p = "main" THEN "ready" ELSE IF p = "reader" THEN "read" ELSE "done"

\* The file write of saveSession completes: the file of that session id now
\* holds the snapshot.  Two overlapping saves complete in either order.
SaveDone(p) ==
  /\ pc[p] = "save_wait"
  /\ store' = saveSession(store, saving[p].sessionId, saving[p])
  /\ saving' = [saving EXCEPT ![p] = NoSnapshot]
  /\ pc' = [pc EXCEPT ![p] = AfterSave(p)]
  /\ cur' = IF p = "reader" THEN NoCall ELSE cur
  /\ UNCHANGED <<engineVars, queueVars, peerVars, received, spelling, calls, load, api,
                 message, prompts>>

\* sendPrompt after `await this.sendRPC("session/prompt", ...)`.
PromptSentBy(p) ==
  /\ pc[p] = "prompt_wait"
  /\ QueueAwaitOver(p)
  /\ persistSession(p, AfterSave(p))
  /\ UNCHANGED <<engineVars, queueVars, peerVars, toolVars, store, load, api,
                 message, prompts>>

PromptSent == PromptSentBy("main")

\* ------------------------------------------------------- the reader task
\* How many calls of sendPrompt have returned.
PromptsReturned == IF pc["main"] \in {"boot", "init_wait", "ready"}
                   THEN prompts ELSE prompts - 1

\* The record kept of an invocation: its tool, the operator's decision,
\* whether the collaborator has run, how the call ended, the error text of
\* a failed collaborator, and how many sendPrompt calls had returned when
\* the request was read.
NewCall(tool) ==
  [tool |-> tool, decision |-> "pending", ran |-> FALSE, fate |-> "open",
   error |-> "", after |-> PromptsReturned]

\* A handleToolCall that pushes no tool_call entry.
handleToolCallNoEntry(toolName, id) ==
  /\ history' = history
  /\ cur' = id
  /\ calls' = (id :> NewCall(toolName)) @@ calls
  /\ pc' = [pc EXCEPT !["reader"] = "approval"]

\* handleToolCall up to the await of inquirer.prompt: the tool_call entry is
\* pushed before the operator is asked.
handleToolCall(toolName, id) ==
  /\ history' = Append(history, HistoryEntry("tool_call", toolName))
  /\ cur' = id
  /\ calls' = (id :> NewCall(toolName)) @@ calls
  /\ pc' = [pc EXCEPT !["reader"] = "approval"]

\* A handleMessage whose chain ends in an else that treats every other
\* method as a terminal request.
handleMessageCatchAll(msg) ==
  IF msg.method = ""
  THEN /\ received' = received \cup {msg}
       /\ UNCHANGED <<pc, history, cur, calls>>
  ELSE /\ received' = received
       /\ handleToolCall(IF ToolNameOf(msg.method) # ""
                         THEN ToolNameOf(msg.method) ELSE "createTerminal",
                         msg.pid)

\* readMessages takes the next chunk and runs handleMessage on it: a message
\* with no method is logged and dropped, a tool spelling starts
\* handleToolCall, any other method falls through the chain.
handleMessage(msg) ==
  IF msg.method = ""
  THEN /\ received' = received \cup {msg}
       /\ UNCHANGED <<pc, history, cur, calls>>
  ELSE /\ received' = received
       /\ IF ToolNameOf(msg.method) # ""
          THEN handleToolCall(ToolNameOf(msg.method), msg.pid)
          ELSE UNCHANGED <<pc, history, cur, calls>>

\* The message a chunk of the stream decodes to.  Nothing looks at the
\* method of a peer request or at the session id of a session/new result
\* before the chunk is read, so both are drawn when it is read.
Decoded(chunk, m, sid) ==
  IF chunk.kind = "request" THEN PeerRequest(chunk.pid, m)
  ELSE PeerResult(chunk.rid, IF chunk.method = "session/new" THEN sid ELSE "{}")

\* reader.read() hands the next chunk to handleMessage; the peer's requests
\* use the method spellings of methods.  With noted, the spelling of each
\* request is kept beside its id.
ReadNoting(methods, noted) ==
  /\ pc["reader"] = "read"
  /\ inbound # <<>>
  /\ inbound' = Tail(inbound)
  /\ \E m \in methods, sid \in ServerSessionIds :
       /\ handleMessage(Decoded(Head(inbound), m, sid))
       /\ spelling' = IF noted /\ Head(inbound).kind = "request"
                      THEN (Head(inbound).pid :> m) @@ spelling
                      ELSE spelling
  /\ UNCHANGED <<sessionId, requestId, autoSave, model, workspaceDir,
                 queueVars, answered, streamClosed, peerSent, storeVars,
                 message, prompts>>

ReadChunk(methods) == ReadNoting(methods, FALSE)

ReadMessage == ReadChunk(PeerMethods)

\* An agent that asks for file writes, or sends notifications.
FileWriteMethods == TOOL_METHODS.WRITE_FILE \cup {"session/update"}

ReadMessageFileWrite == ReadChunk(FileWriteMethods)

\* reader.read() reports done: the stream is closed and empty, the loop ends.
ReadDone ==
  /\ pc["reader"] = "read"
  /\ inbound = <<>>
  /\ streamClosed
  /\ pc' = [pc EXCEPT !["reader"] = "closed"]
  /\ UNCHANGED <<engineVars, queueVars, peerVars, toolVars, storeVars,
                 message, prompts>>

\* A handleToolCall without its rejection branch.
ExecutesToolAlways(approved) == TRUE

\* handleToolCall, line 158: `if (!approved) { ...; return; }` - the tool
\* runs exactly when the operator's answer is yes.
ExecutesTool(approved) == approved

\* A rejection answered with the code of the catch block.
RejectionResponseInternal(id) ==
  ErrorResponse(id, InternalErrorCode, UserRejectedMessage)

\* The response of the rejection branch (lines 161-164).
RejectionResponse(id) ==
  ErrorResponse(id, UserRejectedCode, UserRejectedMessage)

\* inquirer.prompt resolves with the operator's answer.
ApprovalDecision ==
  /\ pc["reader"] = "approval"
  /\ \E approved \in BOOLEAN :
       IF ExecutesTool(approved)
       THEN /\ calls' = [calls EXCEPT ![cur].decision =
                           IF approved THEN "approved" ELSE "rejected"]
            /\ pc' = [pc EXCEPT !["reader"] = "exec"]
            /\ UNCHANGED queueVars
       ELSE /\ calls' = [calls EXCEPT ![cur].decision = "rejected",
                                      ![cur].fate = "rejected"]
            /\ sendRPCResponse("reader", RejectionResponse(cur))
            /\ pc' = [pc EXCEPT !["reader"] = "reject_wait"]
  /\ UNCHANGED <<engineVars, peerVars, received, spelling, cur, storeVars, message,
                 prompts>>

\* inquirer.prompt rejects (no terminal to render on, the prompt is closed):
\* nothing in handleToolCall or handleMessage catches, the catch of
\* readMessages is outside its loop, so the read loop is over.
ApprovalFault ==
  /\ pc["reader"] = "approval"
  /\ calls' = [calls EXCEPT ![cur].decision = "fault", ![cur].fate = "aborted"]
  /\ cur' = NoCall
  /\ pc' = [pc EXCEPT !["reader"] = "dead"]
  /\ UNCHANGED <<engineVars, queueVars, peerVars, received, spelling, storeVars, message,
                 prompts>>

\* What the collaborator of a tool can report.  writeFile, readFile and
\* listDir catch every fault and return {error}; runShellCommand reports a
\* failed command in its result (exitCode, stderr), and the createTerminal
\* branch throws when params.args is no array or spawn throws.
Ok == [status |-> "ok", text |-> ""]
Failure(status, text) == [status |-> status, text |-> text]
ToolOutcomes(tool) ==
  {Ok} \cup
  {Failure(IF tool = "createTerminal" THEN "throw" ELSE "error", e) :
     e \in ErrorTexts}

\* The result each tool's branch hands to sendRPCResponse.
ResultPayload(tool) ==
  CASE tool = "writeTextFile" -> "{}"
    [] tool = "readTextFile" -> "{content}"
    [] tool = "listDirectory" -> "{entries}"
    [] tool = "createTerminal" -> "{id,exitCode,stdout,stderr}"

\* A catch block that answers with a fixed message.
ToolResponseGeneric(id, tool, outcome) ==
  IF outcome.status = "ok" THEN ResultResponse(id, ResultPayload(tool))
  ELSE ErrorResponse(id, InternalErrorCode, "Internal error")

\* The response of the try/catch of handleToolCall (lines 170-238): the
\* branch's result, or from the catch an error carrying error.message.
ToolResponse(id, tool, outcome) ==
  IF outcome.status = "ok" THEN ResultResponse(id, ResultPayload(tool))
  ELSE ErrorResponse(id, InternalErrorCode, outcome.text)

\* The tool_result entry: only the writeTextFile branch pushes one (lines
\* 178-182), after its `if (result.error) throw`.
PushesToolResult(tool, outcome) ==
  tool = "writeTextFile" /\ outcome.status = "ok"

\* The collaborator of the approved tool has run; its branch, or the catch,
\* sends the response.
ToolComplete ==
  /\ pc["reader"] = "exec"
  /\ \E outcome \in ToolOutcomes(calls[cur].tool) :
       /\ calls' = [calls EXCEPT ![cur].ran = TRUE,
                      ![cur].error = outcome.text,
                      ![cur].fate = IF outcome.status = "ok" THEN "succeeded"
                                    ELSE "failed"]
       /\ history' = IF PushesToolResult(calls[cur].tool, outcome)
                     THEN Append(history,
                                 HistoryEntry("tool_result", calls[cur].tool))
                     ELSE history
       /\ sendRPCResponse("reader", ToolResponse(cur, calls[cur].tool, outcome))
  /\ pc' = [pc EXCEPT !["reader"] = "resp_wait"]
  /\ UNCHANGED <<sessionId, requestId, autoSave, model, workspaceDir, peerVars,
                 received, spelling, cur, storeVars, message, prompts>>

\* The rejection branch returns after its sendRPCResponse: no persistSession.
RejectionSent ==
  /\ pc["reader"] = "reject_wait"
  /\ QueueAwaitOver("reader")
  /\ cur' = NoCall
  /\ pc' = [pc EXCEPT !["reader"] = "read"]
  /\ UNCHANGED <<engineVars, queueVars, peerVars, received, spelling, calls, storeVars,
                 message, prompts>>

\* After the try/catch: `await this.persistSession()` (line 240).
ResponseSent ==
  /\ pc["reader"] = "resp_wait"
  /\ QueueAwaitOver("reader")
  /\ persistSession("reader", "read")
  /\ cur' = IF Persists THEN cur ELSE NoCall
  /\ UNCHANGED <<engineVars, queueVars, peerVars, received, spelling, calls, store,
                 load, api, message, prompts>>

\* ---------------------------------------------------------------- the peer
\* The EventSource is open: startSession has created the transport and the
\* stream has not been closed.  The peer sends at most MaxInbound chunks.
Connected == pc["reader"] # "off" /\ ~streamClosed /\ peerSent < MaxInbound

\* What es.onmessage enqueues for a request of the peer and for its answer
\* to request w of this client (see Decoded).
RequestChunk(id) == [kind |-> "request", pid |-> id, rid |-> -1, method |-> ""]
AnswerChunk(w) == [kind |-> "result", pid |-> "", rid |-> w.rid,
                   method |-> w.method]

\* es.onmessage: the agent sends a request, for a tool or for another
\* method, under an id of its own.
PeerSendsRequest ==
  /\ Connected
  /\ inbound' = Append(inbound, RequestChunk(PeerIds[peerSent + 1]))
  /\ peerSent' = peerSent + 1
  /\ UNCHANGED <<pc, engineVars, queueVars, answered, streamClosed, toolVars,
                 storeVars, message, prompts>>

\* The requests of this client whose POST has reached the peer.
Posted ==
  {w \in {wire[i] : i \in 1..Len(wire)} :
     w.kind = "request" /\ w # inflight /\ w \notin lost}

\* es.onmessage: the agent answers a request it was sent.
PeerAnswers ==
  /\ Connected
  /\ \E w \in Posted :
       /\ w.rid \notin answered
       /\ answered' = answered \cup {w.rid}
       /\ inbound' = Append(inbound, AnswerChunk(w))
  /\ peerSent' = peerSent + 1
  /\ UNCHANGED <<pc, engineVars, queueVars, streamClosed, toolVars, storeVars,
                 message, prompts>>

\* es.onerror: controller.close(); the chunks already enqueued stay readable.
StreamClose ==
  /\ pc["reader"] # "off"
  /\ ~streamClosed
  /\ streamClosed' = TRUE
  /\ UNCHANGED <<pc, engineVars, queueVars, answered, inbound, peerSent,
                 toolVars, storeVars, message, prompts>>

\* ------------------------------------------------------- resumeSession
\* A session saved by an earlier run of the program.
SavedSession ==
  [sessionId |-> "saved-1", model |-> "claude-3-opus", workspaceDir |-> "/old",
   history |-> <<HistoryEntry("prompt", "earlier"),
                 HistoryEntry("tool_call", "readTextFile")>>]
SavedDisk == saveSession(<<>>, SavedSession.sessionId, SavedSession)

\* The ids resumeSession is asked for: the session of the earlier run, the
\* session of this run, and one that was never saved.
ResumeIds == {"saved-1", LocalSessionId, "no-such-session"}

\* resumeSession called by the application between two other calls, up to
\* the await inside loadSession: existsSync decides at once whether the
\* answer is null (resumeSession returns false) or the file is read.
ResumeSession ==
  /\ pc["main"] = "ready"
  /\ \E id \in ResumeIds :
       IF FilePath(id) \in DOMAIN store
       THEN /\ load' = [id |-> id, result |-> "reading"]
            /\ pc' = [pc EXCEPT !["main"] = "load_wait"]
       ELSE /\ load' = [id |-> id, result |-> "notfound"]
            /\ pc' = pc
  /\ UNCHANGED <<engineVars, queueVars, peerVars, toolVars, saving, store,
                 api, message, prompts>>

\* A resumeSession that starts the request ids again for the new session.
resumeSessionNewIds(sessionData) ==
  /\ sessionId' = sessionData.sessionId
  /\ model' = sessionData.model
  /\ workspaceDir' = sessionData.workspaceDir
  /\ history' = sessionData.history
  /\ requestId' = 0

\* A resumeSession that keeps what the engine had and adds the stored
\* history to it.
resumeSessionMerge(sessionData) ==
  /\ sessionId' = sessionData.sessionId
  /\ model' = model
  /\ workspaceDir' = workspaceDir
  /\ history' = history \o sessionData.history
  /\ requestId' = requestId

\* resumeSession, lines 409-412: the four assignments from the loaded data;
\* nothing else of the engine is touched.
resumeSession(sessionData) ==
  /\ sessionId' = sessionData.sessionId
  /\ model' = sessionData.model
  /\ workspaceDir' = sessionData.workspaceDir
  /\ history' = sessionData.history
  /\ requestId' = requestId

\* readFile of loadSession completes: the content is parsed and adopted,
\* resumeSession returns true.
LoadDone ==
  /\ pc["main"] = "load_wait"
  /\ resumeSession(loadSession(store, load.id))
  /\ load' = [load EXCEPT !.result = "ok"]
  /\ pc' = [pc EXCEPT !["main"] = "ready"]
  /\ UNCHANGED <<autoSave, queueVars, peerVars, toolVars, saving, store,
                 api, message, prompts>>

Next ==
  \/ StartSession
  \/ WriteDone
  \/ StartSessionReturn
  \/ SendPrompt
  \/ SessionCreated
  \/ PromptSent
  \/ \E p \in Procs : SaveDone(p)
  \/ ReadMessage
  \/ ReadDone
  \/ ApprovalDecision
  \/ ApprovalFault
  \/ ToolComplete
  \/ RejectionSent
  \/ ResponseSent
  \/ PeerSendsRequest
  \/ PeerAnswers
  \/ StreamClose

Spec == Init /\ [][Next]_vars

\* A later run, with the session of an earlier run on disk, in which the
\* application also resumes sessions.
InitResume == InitOn(SavedDisk)

NextResume ==
  \/ StartSession
  \/ WriteDone
  \/ StartSessionReturn
  \/ SendPrompt
  \/ SessionCreated
  \/ PromptSent
  \/ \E p \in Procs : SaveDone(p)
  \/ ResumeSession
  \/ LoadDone
  \/ ReadMessageFileWrite
  \/ ApprovalDecision
  \/ ToolComplete
  \/ RejectionSent
  \/ ResponseSent
  \/ PeerSendsRequest
  \/ PeerAnswers

SpecResume == InitResume /\ [][NextResume]_vars

\* ------------------------------------------------------- a busy agent
\* es.onmessage while the operator is being asked: the agent sends one more
\* request (one beyond the MaxInbound chunks of Connected).
PeerSendsWhileAsked ==
  /\ pc["reader"] = "approval"
  /\ ~streamClosed
  /\ peerSent <= MaxInbound
  /\ peerSent < Len(PeerIds)
  /\ inbound' = Append(inbound, RequestChunk(PeerIds[peerSent + 1]))
  /\ peerSent' = peerSent + 1
  /\ UNCHANGED <<pc, engineVars, queueVars, answered, streamClosed, toolVars,
                 storeVars, message, prompts>>

NextBusy ==
  \/ Next
  \/ PeerSendsWhileAsked

SpecBusy == Init /\ [][NextBusy]_vars

\* ------------------------------------------------- an unreliable server
\* A run in which a POST can fail.
NextLossy ==
  \/ StartSession
  \/ WriteDone
  \/ WriteFails
  \/ StartSessionReturn
  \/ SendPrompt
  \/ SessionCreated
  \/ PromptSent
  \/ \E p \in Procs : SaveDone(p)
  \/ ReadMessageFileWrite
  \/ ApprovalDecision
  \/ ToolComplete
  \/ RejectionSent
  \/ ResponseSent
  \/ PeerSendsRequest

SpecLossy == Init /\ [][NextLossy]_vars

\* ------------------------------------------------ the tool requests alone
\* A run in which the application sends no prompt and the spelling of every
\* request read is noted.
ReadMessageNoted == ReadNoting(PeerMethods, TRUE)

NextAlias ==
  \/ StartSession
  \/ WriteDone
  \/ StartSessionReturn
  \/ PeerSendsRequest
  \/ ReadMessageNoted
  \/ ApprovalDecision
  \/ ToolComplete
  \/ RejectionSent
  \/ ResponseSent

SpecAlias == Init /\ [][NextAlias]_vars

\* ---------------------------------------------- the session store alone
\* The session store called directly, one call after the other, as index.ts
\* calls listSessions: the ids, and the session data handed to saveSession.
StoreIds == {"saved-1", "session-1"}
StoreModels == {"claude-3-5-sonnet-20241022", "claude-3-opus"}
StoreEntries == {HistoryEntry("prompt", "hello"),
                 HistoryEntry("tool_call", "writeTextFile")}
StoreHistories == UNION {[1..n -> StoreEntries] : n \in 0..MaxHistory}
StoreData(id) ==
  {[sessionId |-> id, model |-> m, workspaceDir |-> "cwd", history |-> h] :
     m \in StoreModels, h \in StoreHistories}

\* A sessions directory that also holds a file that is no session.
StrayFile == <<SESSIONS_DIR, "notes", ".txt">>
StrayDisk == (StrayFile :> <<"to do">>) @@ SavedDisk

SaveSession ==
  /\ \E id \in StoreIds : \E data \in StoreData(id) :
       /\ store' = saveSession(store, id, data)
       /\ api' = [op |-> "save", id |-> id, data |-> data, list |-> {},
                  raised |-> FALSE, saved |-> (id :> data) @@ api.saved]
  /\ UNCHANGED <<pc, engineVars, queueVars, peerVars, toolVars, saving, load,
                 message, prompts>>

LoadSession ==
  /\ \E id \in StoreIds :
       api' = [api EXCEPT !.op = "load", !.id = id, !.list = {},
                          !.data = loadSession(store, id), !.raised = FALSE]
  /\ UNCHANGED <<pc, engineVars, queueVars, peerVars, toolVars, saving, store,
                 load, message, prompts>>

ListSessions ==
  /\ api' = [api EXCEPT !.op = "list", !.id = "", !.data = NoSnapshot,
                        !.list = listSessions(store), !.raised = FALSE]
  /\ UNCHANGED <<pc, engineVars, queueVars, peerVars, toolVars, saving, store,
                 load, message, prompts>>

\* A deleteSession that unlinks without looking and lets the fault out.
DeleteRaisesIfAbsent(dir, id) == FilePath(id) \notin DOMAIN dir

\* deleteSession raises nothing: unlink is called for an existing file
\* only, inside a try whose catch logs.
DeleteRaises(dir, id) == FALSE

DeleteSession ==
  /\ \E id \in StoreIds :
       /\ store' = deleteSession(store, id)
       /\ api' = [op |-> "delete", id |-> id, data |-> NoSnapshot, list |-> {},
                  raised |-> DeleteRaises(store, id),
                  saved |-> [i \in DOMAIN api.saved \ {id} |-> api.saved[i]]]
  /\ UNCHANGED <<pc, engineVars, queueVars, peerVars, toolVars, saving, load,
                 message, prompts>>

InitStore == \E dir \in {<<>>, SavedDisk, StrayDisk} : InitOn(dir)

NextStore ==
  \/ SaveSession
  \/ LoadSession
  \/ ListSessions
  \/ DeleteSession

SpecStore == InitStore /\ [][NextStore]_vars

\* ====================================================== the claims
WireSet == {wire[i] : i \in 1..Len(wire)}
IsResponse(w) == w.kind \in {"result", "error"}

\* The responses carrying id among the messages of sequence log, in order.
ResponsesFor(log, id) == SelectSeq(log, LAMBDA w : IsResponse(w) /\ w.pid = id)

\* The number of tool_result entries of a history.
ToolResults(h) == Len(SelectSeq(h, LAMBDA e : e.type = "tool_result"))

\* The handling of invocation id has ended and the outbound queue is drained:
\* nothing more will be written for it.
Settled(id) == cur # id /\ writeQueue = <<>> /\ inflight = NoMsg

\* C1: every inbound request with an accepted tool spelling gets exactly one
\* response with its id written to the transport, never more than one,
\* whatever the outcome.  (As a final result: at most one response is ever
\* written, and once the handling has ended and the queue is drained there
\* is exactly one.)
C1_ExactlyOneResponse ==
  \A id \in DOMAIN calls :
    /\ Len(ResponsesFor(wire, id)) <= 1
    /\ Settled(id) => Len(ResponsesFor(wire, id)) = 1

\* C2: a tool collaborator runs for an invocation only after the operator's
\* decision for that invocation was obtained and is 'approved'.
C2_ToolOnlyAfterApproval ==
  /\ \A id \in DOMAIN calls :
       calls[id].ran => calls[id].decision = "approved"
  /\ pc["reader"] = "exec" => calls[cur].decision = "approved"

C2_Witness ==
  \E id \in DOMAIN calls : calls[id].ran /\ calls[id].decision = "approved"

\* C3: the transport receives the write attempts in exactly the order the
\* messages were enqueued, enqueues made during a drain included, with no
\* message written twice and none reordered.
C3_FifoOrder ==
  /\ enqueued = wire \o writeQueue
  /\ \A i, j \in 1..Len(wire) : wire[i] = wire[j] => i = j

C3_Witness ==
  /\ Len(writeQueue) >= 2
  /\ inflight # NoMsg
  /\ \E i \in 1..Len(wire) : IsResponse(wire[i])

\* At most one task is inside the drain loop; the isWriting flag is up
\* exactly while one is; a write is in flight only inside a drain.
C4_DrainRunning ==
  /\ Cardinality(drainers) <= 1
  /\ isWriting <=> drainers # {}
  /\ inflight # NoMsg => drainers # {}

\* An enqueue made while a drain is in progress leaves the drain as it is
\* and its message at the back of the queue.
C4_EnqueueDuringDrain ==
  (isWriting /\ Len(enqueued') > Len(enqueued)) =>
    /\ drainers' = drainers
    /\ isWriting'
    /\ inflight' = inflight
    /\ writeQueue' = Append(writeQueue, enqueued'[Len(enqueued')])

\* C4: at most one drain of the outbound queue executes at any time: an
\* enqueue made while a drain is in progress starts no second drain, and its
\* message is left in the queue of the drain already running.
C4_SingleDrain == []C4_DrainRunning /\ [][C4_EnqueueDuringDrain]_vars

C4_Witness ==
  /\ inflight # NoMsg
  /\ writeQueue # <<>>
  /\ \E p \in Procs : p \notin drainers /\ pc[p] \in {"new_wait", "prompt_wait",
                                                       "reject_wait", "resp_wait"}

\* A rejected invocation has not run its tool and has exactly the rejection
\* response enqueued for its id.
C5_RejectedCall ==
  \A id \in DOMAIN calls :
    calls[id].decision = "rejected" =>
      /\ ~calls[id].ran
      /\ ResponsesFor(enqueued, id)
           = <<ErrorResponse(id, -32000, "User rejected tool call")>>

\* A step taken while the invocation being handled is a rejected one.
C5_NoToolResult ==
  (cur # NoCall /\ calls'[cur].decision = "rejected") =>
    /\ ToolResults(history') = ToolResults(history)
    /\ pc'["reader"] # "exec"

\* C5: when the operator rejects an invocation, the engine emits an error
\* response with code -32000 and message "User rejected tool call" for that
\* request id (and no other response), the tool is not executed, and no
\* tool_result history entry is appended.
C5_Rejection == []C5_RejectedCall /\ [][C5_NoToolResult]_vars

C5_Witness ==
  \E id \in DOMAIN calls :
    /\ calls[id].decision = "rejected"
    /\ Len(ResponsesFor(wire, id)) = 1
    /\ cur = NoCall

\* A failed invocation has exactly one response enqueued for its id, the
\* error response carrying the collaborator's error text.
C6_FailedCall ==
  \A id \in DOMAIN calls :
    calls[id].fate = "failed" =>
      ResponsesFor(enqueued, id) = <<ErrorResponse(id, -32603, calls[id].error)>>

\* A step that ends the collaborator's run in a failure, or is taken while
\* the failed invocation is still being handled.
C6_NoToolResult ==
  (cur # NoCall /\ calls'[cur].fate = "failed") =>
    ToolResults(history') = ToolResults(history)

\* C6: when an approved tool's collaborator returns an error string or
\* throws, the engine emits an error response with code -32603 whose message
\* is that error text for that request id, emits no result response for it,
\* and appends no tool_result history entry.
C6_Failure == []C6_FailedCall /\ [][C6_NoToolResult]_vars

C6_Witness ==
  /\ \E id \in DOMAIN calls :
       /\ calls[id].fate = "failed"
       /\ calls[id].tool = "writeTextFile"
       /\ calls[id].error = "EACCES"
       /\ Len(ResponsesFor(wire, id)) = 1
  /\ cur = NoCall

\* C7: for every tool kind, an approved invocation whose collaborator
\* succeeds emits a result response for that request id and appends exactly
\* one tool_result history entry.
C7_SucceededCall ==
  /\ \A id \in DOMAIN calls :
       calls[id].fate = "succeeded" =>
         ResponsesFor(enqueued, id)
           = <<ResultResponse(id, ResultPayload(calls[id].tool))>>
  /\ ToolResults(history)
       = Cardinality({id \in DOMAIN calls : calls[id].fate = "succeeded"})

\* The scenario of C8: one sendPrompt, which has created the session and
\* has returned; then one inbound writeTextFile request, read after that,
\* approved and completed successfully, its handling (the save included)
\* over; no other invocation.
C8_Scenario ==
  /\ prompts = 1
  /\ pc["main"] = "ready"
  /\ pc["reader"] \in {"read", "closed"}
  /\ cur = NoCall
  /\ Cardinality(DOMAIN calls) = 1
  /\ \A id \in DOMAIN calls :
       /\ calls[id].tool = "writeTextFile"
       /\ calls[id].fate = "succeeded"
       /\ calls[id].after = 1

\* The session on disk under the engine's session id.
Persisted == loadSession(store, sessionId)

PersistedTypes ==
  [i \in 1..Len(Persisted.history) |-> Persisted.history[i].type]

\* C8 as stated: in that scenario the session persisted at the end has
\* exactly 2 history entries, a prompt entry followed by a tool_result entry.
C8_TwoEntries ==
  C8_Scenario =>
    /\ sessionId \in listSessions(store)
    /\ PersistedTypes = <<"prompt", "tool_result">>

\* C8 as amended: in that scenario the session persisted at the end has
\* exactly 3 history entries: the prompt entry, the tool_call entry pushed
\* before the approval prompt, and the tool_result entry.
C8_ThreeEntries ==
  C8_Scenario =>
    /\ sessionId \in listSessions(store)
    /\ Persisted.history
         = <<HistoryEntry("prompt", message["main"]),
             HistoryEntry("tool_call", "writeTextFile"),
             HistoryEntry("tool_result", "writeTextFile")>>
    /\ Persisted.history = history

C8_Witness ==
  /\ C8_Scenario
  /\ sessionId \in listSessions(store)
  /\ Len(Persisted.history) = 3

\* The request of this client that asked for a new session.
SessionNewRequests == {w \in WireSet : w.kind = "request" /\ w.method = "session/new"}

\* C9: the result of the inbound response matching an outstanding request is
\* returned to the caller awaiting it; in particular the session id adopted
\* on the first sendPrompt is the sessionId carried by the server's response
\* to session/new.
C9_ServerSessionId ==
  (sessionId # NoSession /\ SessionNewRequests # {}) =>
    \E w \in SessionNewRequests, r \in received :
      r.rid = w.rid /\ r.text = sessionId

\* C10: when sendPrompt is called with no session, session/prompt is not
\* written to the transport until session/new has been written and its
\* response has been received.
C10_RoundTripFirst ==
  \A i \in 1..Len(wire) :
    (wire[i].method = "session/prompt" /\ SessionNewRequests # {}) =>
      \E j \in 1..(i - 1) :
        /\ wire[j].method = "session/new"
        /\ \E r \in received : r.rid = wire[j].rid
\* The requests of this client among the messages of sequence log, in order.
RequestsOf(log) == SelectSeq(log, LAMBDA w : w.kind = "request" /\ w.pid = "")

\* C11: the first message ever written to the transport is the initialize
\* request: no session/new, session/prompt or tool response is written
\* before initialize.
C11_InitializeFirst ==
  /\ wire # <<>> => wire[1].kind = "request" /\ wire[1].method = "initialize"
  /\ \A i \in 1..Len(wire) :
       (IsResponse(wire[i]) \/ wire[i].method \in {"session/new", "session/prompt"})
         => \E j \in 1..(i - 1) : wire[j].method = "initialize"

C11_Witness ==
  /\ \E i \in 1..Len(wire) : IsResponse(wire[i])
  /\ \E i \in 1..Len(wire) : wire[i].method = "session/prompt"

\* C12: the identifiers of outbound requests start at 0 and are strictly
\* increasing in submission order; no two requests submitted by one engine
\* carry the same id, including after resumeSession.
C12_RequestIds ==
  /\ \A i \in 1..Len(RequestsOf(enqueued)) : RequestsOf(enqueued)[i].rid = i - 1
  /\ \A i, j \in 1..Len(RequestsOf(enqueued)) :
       i < j => RequestsOf(enqueued)[i].rid < RequestsOf(enqueued)[j].rid
  /\ requestId = Len(RequestsOf(enqueued))

\* A request was submitted after a session was resumed.
C12_Witness ==
  /\ load.result = "ok"
  /\ sessionId = "saved-1"
  /\ \E i \in 1..Len(enqueued) :
       /\ enqueued[i].method = "session/prompt"
       /\ enqueued[i].rid = 1
\* The number of prompt entries of a history.
PromptEntries(h) == Len(SelectSeq(h, LAMBDA e : e.type = "prompt"))

\* The session/prompt requests among the messages of sequence log.
PromptRequests(log) == SelectSeq(log, LAMBDA w : w.method = "session/prompt")

\* C13: every prompt entry in a persisted session history corresponds to a
\* session/prompt request that was actually written to the transport: a
\* prompt whose message is still queued does not appear in the persisted
\* history.
C13_PersistedPromptsWritten ==
  \A f \in DOMAIN store :
    PromptEntries(Parse(store[f]).history) <= Len(PromptRequests(wire))

\* resumeSession returns true: the engine holds what the file held and
\* nothing was enqueued or written.
C14_Found ==
  (pc["main"] = "load_wait" /\ pc'["main"] = "ready") =>
    /\ FilePath(load.id) \in DOMAIN store
    /\ sessionId' = Parse(store[FilePath(load.id)]).sessionId
    /\ model' = Parse(store[FilePath(load.id)]).model
    /\ workspaceDir' = Parse(store[FilePath(load.id)]).workspaceDir
    /\ history' = Parse(store[FilePath(load.id)]).history
    /\ load'.result = "ok"
    /\ enqueued' = enqueued /\ writeQueue' = writeQueue /\ wire' = wire

\* A call of resumeSession: it returns false exactly when no file is
\* stored under the id, and then the engine and the queue are as before.
C14_NotFound ==
  (pc["main"] = "ready" /\ load' # load) =>
    /\ load'.result = "notfound" <=> FilePath(load'.id) \notin DOMAIN store
    /\ load'.result = "notfound" =>
         /\ UNCHANGED <<sessionId, model, workspaceDir, history>>
         /\ pc'["main"] = "ready"
    /\ enqueued' = enqueued /\ writeQueue' = writeQueue /\ wire' = wire

\* C14: resumeSession(id) for a stored session replaces the in-memory
\* session id, model, workspace and history with the stored values and
\* enqueues no outbound message; when no session is stored under id it
\* returns false and leaves session id, model, workspace and history
\* unchanged.
C14_Resume == [][C14_Found /\ C14_NotFound]_vars

\* A session with a prompt of its own was replaced by the stored one.
C14_Witness ==
  /\ prompts = 1
  /\ load.result = "ok"
  /\ sessionId = SavedSession.sessionId
  /\ model = SavedSession.model
  /\ workspaceDir = SavedSession.workspaceDir
  /\ history = SavedSession.history
C16_DeleteStep ==
  api'.op = "delete" =>
    /\ ~api'.raised
    /\ FilePath(api'.id) \notin DOMAIN store => store' = store
    /\ \A f \in DOMAIN store \ {FilePath(api'.id)} :
         f \in DOMAIN store' /\ store'[f] = store[f]
    /\ DOMAIN store' \subseteq DOMAIN store
    /\ loadSession(store', api'.id) = NoSnapshot
    /\ api'.id \notin listSessions(store')

\* What loadSession and listSessions answer right after a delete.
C16_AfterDelete ==
  (api.op = "delete" /\ api'.op = "load" /\ api'.id = api.id
     => api'.data = NoSnapshot)
  /\ (api.op = "delete" /\ api'.op = "list" => api.id \notin api'.list)

BareName ==
  [WRITE_FILE |-> "writeTextFile", READ_FILE |-> "readTextFile",
   LIST_DIRECTORY |-> "listDirectory", CREATE_TERMINAL |-> "createTerminal"]

\* What a request under the bare spelling bare gets enqueued as response,
\* for the id, decision and collaborator outcome of call c.
BareResponses(id, bare, c) ==
  IF c.decision = "rejected" THEN <<RejectionResponse(id)>>
  ELSE IF c.fate = "succeeded" THEN <<ToolResponse(id, bare, Ok)>>
  ELSE IF c.fate = "failed"
       THEN <<ToolResponse(id, bare, Failure("error", c.error))>>
  ELSE <<>>

\* The history entries a request under the bare spelling leaves.
BareEntries(bare, c) ==
  <<HistoryEntry("tool_call", bare)>>
    \o (IF PushesToolResult(bare, IF c.fate = "succeeded" THEN Ok
                                  ELSE Failure("error", c.error))
        THEN <<HistoryEntry("tool_result", bare)>> ELSE <<>>)

\* The tool kind whose spellings include method m.
KindsOf(m) == {k \in DOMAIN TOOL_METHODS : m \in TOOL_METHODS[k]}

RECURSIVE BareHistory(_)
\* The history left by the requests read among the first n ids, each taken
\* as if it had come under the bare spelling of its kind.
BareHistory(n) ==
  IF n = 0 THEN <<>>
  ELSE BareHistory(n - 1) \o
       (IF PeerIds[n] \in DOMAIN spelling /\ KindsOf(spelling[PeerIds[n]]) # {}
           /\ PeerIds[n] \in DOMAIN calls
        THEN BareEntries(BareName[CHOOSE k \in KindsOf(spelling[PeerIds[n]]) : TRUE],
                         calls[PeerIds[n]])
        ELSE <<>>)

\* C17: the three spellings of each tool method (bare, slash-namespaced,
\* dot-namespaced) route to the same handler: for the same id, approval
\* decision and collaborator outcome they produce the same outbound
\* response and the same history changes as the bare spelling.
C17_SpellingsRouteAlike ==
  /\ \A id \in DOMAIN spelling : \A k \in KindsOf(spelling[id]) :
       /\ id \in DOMAIN calls
       /\ calls[id].tool = BareName[k]
       /\ ResponsesFor(enqueued, id) = BareResponses(id, BareName[k], calls[id])
  /\ \A id \in DOMAIN spelling :
       KindsOf(spelling[id]) = {} => id \notin DOMAIN calls
  /\ history = BareHistory(Len(PeerIds))

\* A request under the dot spelling was approved, succeeded and answered.
C17_Witness ==
  \E id \in DOMAIN spelling :
    /\ spelling[id] = "fs.writeTextFile"
    /\ calls[id].fate = "succeeded"
    /\ Len(ResponsesFor(wire, id)) = 1
    /\ Len(history) = 2
\* How many times message m was handed to the transport.
TimesWritten(m) == Cardinality({i \in 1..Len(wire) : wire[i] = m})

\* A message whose write failed was handed to the transport once and is
\* not in the queue.
C18_LostStaysLost ==
  \A m \in lost :
    /\ TimesWritten(m) = 1
    /\ \A i \in 1..Len(writeQueue) : writeQueue[i] # m

\* The step in which a write fails: the drain takes the next queued
\* message, or ends when there is none.
C18_DrainGoesOn ==
  lost' # lost =>
    /\ lost' = lost \cup {inflight}
    /\ IF writeQueue = <<>>
       THEN writeQueue' = <<>> /\ inflight' = NoMsg /\ ~isWriting' /\ wire' = wire
       ELSE /\ inflight' = Head(writeQueue)
            /\ writeQueue' = Tail(writeQueue)
            /\ wire' = Append(wire, Head(writeQueue))
            /\ isWriting'

\* C18: when a transport write of a message fails, that message is dropped:
\* it is never written again and never put back in the queue, and the drain
\* goes on to the next queued message.
C18_FailedWriteDropped == []C18_LostStaysLost /\ [][C18_DrainGoesOn]_vars

\* A write failed, the next queued message was written after it and got
\* through, and the queue is drained.
C18_Witness ==
  /\ \E i, j \in 1..Len(wire) :
       i < j /\ wire[i] \in lost /\ wire[j] \notin lost
  /\ writeQueue = <<>>
  /\ inflight = NoMsg
\* The places where a task awaits the processWriteQueue of its sendRPC or
\* sendRPCResponse.
EnqueueWaits == {"init_wait", "new_wait", "prompt_wait", "reject_wait",
                 "resp_wait"}

\* C19: enqueuing an outbound message never suspends the caller beyond
\* inserting it in the queue: a call to sendRPC or sendRPCResponse
\* completes without waiting for transport writes, so no caller is ever
\* held inside such a call by a drain.
C19_EnqueueReturnsAtOnce ==
  \A p \in Procs : pc[p] \in EnqueueWaits => QueueAwaitOver(p)

\* C20: while one tool invocation is awaiting the operator's approval,
\* other inbound messages that arrive are still taken from the inbound
\* stream and classified.
C20_ReadsWhileAsking ==
  (pc["reader"] = "approval" /\ inbound # <<>>) => ENABLED ReadMessage

\* The place of a peer request among the requests of the peer.
ArrivalOf(id) == CHOOSE i \in 1..Len(PeerIds) : PeerIds[i] = id

\* The request only PeerSendsWhileAsked can send: Connected stops at
\* MaxInbound chunks, so this one arrives during an approval wait.
SentWhileAsked == PeerIds[MaxInbound + 1]

Unread == {inbound[i] : i \in 1..Len(inbound)}

C21_NotLost ==
  pc["reader"] = "dead" => \A chunk \in Unread : chunk.pid # SentWhileAsked

C21_ArrivalOrder ==
  \A id \in DOMAIN calls : \A chunk \in Unread :
    chunk.kind = "request" => ArrivalOf(id) < ArrivalOf(chunk.pid)

C21_OneWait ==
  Cardinality({id \in DOMAIN calls : calls[id].decision = "pending"}) <= 1

StreamCloseWhileAsked == pc["reader"] = "approval" /\ StreamClose

NextClosing ==
  \/ StartSession
  \/ WriteDone
  \/ StartSessionReturn
  \/ SendPrompt
  \/ SessionCreated
  \/ PromptSent
  \/ \E p \in Procs : SaveDone(p)
  \/ ReadMessage
  \/ ReadDone
  \/ ApprovalDecision
  \/ ApprovalFault
  \/ ToolComplete
  \/ RejectionSent
  \/ ResponseSent
  \/ PeerSendsRequest
  \/ PeerAnswers
  \/ StreamCloseWhileAsked

SpecClosing == Init /\ [][NextClosing]_vars

\* C22: if the inbound stream closes while a tool invocation is awaiting
\* approval, the invocation is aborted: once the operator's decision
\* returns no tool is executed and no response for the invocation is
\* enqueued.  Under SpecClosing the stream closes only during an approval
\* wait, so with the stream closed the reader is never found running a
\* tool or waiting for the write of a response.
C22_AbortedAfterClose ==
  streamClosed => pc["reader"] \notin {"exec", "reject_wait", "resp_wait"}

\* The step in which the handling of a tool invocation finishes, the
\* invocation having succeeded, failed or been rejected.
HandlingFinishes ==
  /\ cur # NoCall
  /\ cur' = NoCall
  /\ calls[cur].fate \in {"succeeded", "failed", "rejected"}

\* The step in which a sendPrompt call returns, no tool invocation being
\* handled at that time.
SendPromptCompletes ==
  /\ pc["main"] \in {"prompt_wait", "save_wait"}
  /\ pc'["main"] = "ready"
  /\ cur = NoCall

NextPlain ==
  \/ NextAlias
  \/ PeerAnswers

SpecPlain == Init /\ [][NextPlain]_vars

\* A chunk that is no recognized tool request: a response, or a request or
\* notification whose method (noted in sp) is in no alias table.
Unrecognized(chunk, sp) ==
  \/ chunk.kind = "result"
  \/ chunk.kind = "request" /\ KindsOf(sp[chunk.pid]) = {}

\* C24: an inbound message that is not a recognized tool request (a response
\* with no method, or a request or notification whose method is in no tool
\* alias table) enqueues no outbound message, starts no approval wait,
\* leaves history and session id unchanged, and does not stop the
\* processing of later inbound messages: the read loop is at its next read.
C24_UnrecognizedIsInert ==
  [][(Len(inbound') < Len(inbound) /\ Unrecognized(Head(inbound), spelling'))
       => /\ enqueued' = enqueued
          /\ writeQueue' = writeQueue
          /\ calls' = calls
          /\ cur' = cur
          /\ history' = history
          /\ sessionId' = sessionId
          /\ pc'["reader"] = "read"]_vars

\* A request under a method of no alias table was read, after it an answer
\* of the agent or nothing, and the read loop is at its next read.
C24_Witness ==
  /\ \E id \in DOMAIN spelling : KindsOf(spelling[id]) = {}
  /\ pc["reader"] = "read"
  /\ calls = <<>>

\* ------------------------------------------- an agent that goes on sending
\* es.onmessage after the approval prompt has failed: the EventSource is
\* still open and the agent sends one more request (one beyond the
\* MaxInbound chunks of Connected).
PeerSendsAfterFault ==
  /\ pc["reader"] = "dead"
  /\ ~streamClosed
  /\ peerSent <= MaxInbound
  /\ peerSent < Len(PeerIds)
  /\ inbound' = Append(inbound, RequestChunk(PeerIds[peerSent + 1]))
  /\ peerSent' = peerSent + 1
  /\ UNCHANGED <<pc, engineVars, queueVars, answered, streamClosed, toolVars,
                 storeVars, message, prompts>>

NextFaulty ==
  \/ Next
  \/ PeerSendsAfterFault

SpecFaulty == Init /\ [][NextFaulty]_vars

\* The request only PeerSendsAfterFault can send.
SentAfterFault == PeerIds[MaxInbound + 1]

\* C25: a fault raised while handling one inbound message (the approval
\* prompt failing) does not end inbound processing: a message that arrives
\* afterwards on the still-open stream is read once it is the next chunk.
C25_ReadsAfterFault ==
  (inbound # <<>> /\ Head(inbound).pid = SentAfterFault /\ ~streamClosed)
    => ENABLED ReadMessage

\* --------------------------------------------- a transport that rejects
\* writer.write(msg) rejects (a transport whose writable refuses the chunk;
\* the sink of createSSEStream never does): the catch of processWriteQueue
\* logs, releaseLock - the statement after the await inside the try - is
\* skipped, and the loop goes on with the stream still locked.
WriteRejects ==
  /\ inflight # NoMsg
  /\ \E d \in drainers : DrainLoop(d, writeQueue, TRUE, NoMsg)
  /\ lost' = lost \cup {inflight}
  /\ UNCHANGED <<pc, engineVars, enqueued, peerVars, toolVars, storeVars,
                 message, prompts>>

NextRejecting ==
  \/ NextLossy
  \/ WriteRejects

SpecRejecting == Init /\ [][NextRejecting]_vars

\* C26: after a transport write attempt fails with a rejected write the
\* engine releases the transport's writer, so messages enqueued afterwards
\* are still attempted on the transport: the writer is held only while a
\* write is in flight, and no message leaves the queue without a write
\* attempt.
C26_WriterReleased ==
  /\ inflight = NoMsg => ~writerLocked
  /\ dropped = <<>>

\* ------------------------------------------- two overlapping sendPrompt
\* A second sendPrompt is called while the first has not returned (one call
\* beyond the MaxPrompts calls of SendPrompt).
SendPromptOverlapping ==
  /\ pc["other"] = "off"
  /\ pc["main"] \in {"new_wait", "prompt_wait", "save_wait"}
  /\ prompts <= MaxPrompts
  /\ sendPrompt("other")

NextOverlap ==
  \/ StartSession
  \/ WriteDone
  \/ StartSessionReturn
  \/ SendPrompt
  \/ SessionCreated
  \/ PromptSent
  \/ SendPromptOverlapping
  \/ SessionCreatedBy("other")
  \/ PromptSentBy("other")
  \/ \E p \in Procs : SaveDone(p)

SpecOverlap == Init /\ [][NextOverlap]_vars

\* The session/new requests submitted so far.
SessionNewSubmitted ==
  {i \in 1..Len(enqueued) : enqueued[i].method = "session/new"}

C27_SubmittedOnce == Cardinality(SessionNewSubmitted) <= 1

C27_SessionIdStable ==
  [][sessionId # NoSession => sessionId' = sessionId]_vars

\* C27: for an engine that starts with no session, session/new is
\* submitted at most once and the session id, once set, never changes, even
\* when two sendPrompt calls overlap.
C27_OneSession == []C27_SubmittedOnce /\ C27_SessionIdStable

\* ------------------------------------------------ the application's main
\* main() of index.ts, with an agent that sends nothing and a server whose
\* POSTs may fail: `await listSessions()`.
AppListSessions ==
  /\ pc["main"] = "boot"
  /\ api.op = "none"
  /\ api' = [api EXCEPT !.op = "list", !.list = listSessions(store)]
  /\ pc' = [pc EXCEPT !["main"] = "listed"]
  /\ UNCHANGED <<engineVars, queueVars, peerVars, toolVars, saving, store,
                 load, message, prompts>>

\* No session was listed, or the operator picks "Start new session": resumed
\* is false and `if (!resumed) await client.startSession()` runs (63-65).
AppNewChosen ==
  /\ pc["main"] = "listed"
  /\ startSession("init_wait")
  /\ UNCHANGED storeVars

\* The operator picks "Resume existing session" and one of the listed
\* sessions: `await client.startSession()` of line 58.
AppResumeChosen ==
  /\ pc["main"] = "listed"
  /\ \E selectedSession \in api.list :
       load' = [id |-> selectedSession, result |-> "chosen"]
  /\ startSession("resume_init_wait")
  /\ UNCHANGED <<saving, store, api>>

\* `resumed = await client.resumeSession(selectedSession)` (line 59), up to
\* the await inside loadSession; resumed is false when the file is gone.
AppResumeSession ==
  /\ pc["main"] = "resume_init_wait"
  /\ QueueAwaitOver("main")
  /\ IF FilePath(load.id) \in DOMAIN store
     THEN /\ load' = [load EXCEPT !.result = "reading"]
          /\ pc' = [pc EXCEPT !["main"] = "load_wait"]
     ELSE /\ load' = [load EXCEPT !.result = "notfound"]
          /\ pc' = [pc EXCEPT !["main"] = "resume_failed"]
  /\ UNCHANGED <<engineVars, queueVars, peerVars, toolVars, saving, store,
                 api, message, prompts>>

\* resumed is false after the resume attempt:
\* `if (!resumed) await client.startSession()` (63-65) runs startSession a
\* second time, on a new transport with a new read loop.
AppStartsAgain ==
  /\ pc["main"] = "resume_failed"
  /\ startSession("init_wait")
  /\ UNCHANGED storeVars

\* While the operator is at the two prompts of main, or startSession is
\* awaited, a listed session file is removed by something else than this
\* run (another run of the program, the operator cleaning up).
SessionFileRemoved ==
  /\ pc["main"] \in {"listed", "resume_init_wait"}
  /\ \E id \in listSessions(store) : store' = deleteSession(store, id)
  /\ UNCHANGED <<pc, engineVars, queueVars, peerVars, toolVars, saving, load,
                 api, message, prompts>>

NextApp ==
  \/ AppListSessions
  \/ AppNewChosen
  \/ AppResumeChosen
  \/ AppResumeSession
  \/ AppStartsAgain
  \/ SessionFileRemoved
  \/ LoadDone
  \/ StartSessionReturn
  \/ WriteDone
  \/ WriteFails
  \/ SendPrompt
  \/ SessionCreated
  \/ PromptSent
  \/ \E p \in Procs : SaveDone(p)

SpecApp == InitStore /\ [][NextApp]_vars

\* The calls of startSession made so far: each creates one transport,
\* starts one read loop and submits one initialize.
StartSessionCalls ==
  {i \in 1..Len(enqueued) : enqueued[i].method = "initialize"}

\* C28: in every run of the application's main flow startSession is invoked
\* exactly once - never twice, and once by the time the application is
\* ready for prompts - so exactly one transport and one read loop exist and
\* initialize is sent once, also when the operator chooses to resume and
\* resumeSession returns false.
C28_StartSessionOnce ==
  /\ Cardinality(StartSessionCalls) <= 1
  /\ pc["main"] \in {"ready", "new_wait", "prompt_wait", "save_wait"}
       => Cardinality(StartSessionCalls) = 1
====
